---- MODULE Spec2Model ----
(***************************************************************************)
(* The comment store of streamforgeanime: the tables comments and          *)
(* comment_likes, and the stored procedures create_comment,                *)
(* toggle_comment_like and get_comments_with_stats, from                   *)
(* supabase/migrations/20250813043841_wispy_bridge.sql.                    *)
(*                                                                         *)
(*   SpecCreate  sequences of create_comment calls                         *)
(*   SpecQuery   create_comment and get_comments_with_stats, with a clock  *)
(*   SpecLikes   create_comment and toggle_comment_like, one at a time     *)
(*   SpecRace    toggle_comment_like calls whose statements interleave     *)
(*   SpecAdmin   admin_update_series_status calls                          *)
(*               (supabase/migrations/20250814034445_soft_queen.sql)       *)
(*   SpecViews   one load of the page of a series (pages/SeriesDetail.tsx) *)
(*   SpecPlayer  the page, its player wrapper and the window's messages     *)
(*   SpecClient  the comment form and the like button, with the store      *)
(*   SpecList    the list of comments (CommentsList), the store, the feed   *)
(*                                                                         *)
(* Text values are sequences of character runs, so that trim() and         *)
(* length() are computed, not assumed.  SQL NULL is a value of its own.    *)
(***************************************************************************)
EXTENDS Integers, Sequences, FiniteSets, Bags, TLC

VARIABLES series, episodes, comments, comment_likes, now, ret, procs,
          page, form, item, localStorage, sent, pending, list, feed

(* The state of the browser: the SeriesDetail page, the comment form, the
   comment shown, localStorage, the calls sent and those not yet answered, the
   list of comments (CommentsList) and the change events on their way to it. *)
client == <<page, form, item, localStorage, sent, pending, list, feed>>

vars == <<series, episodes, comments, comment_likes, now, ret, procs,
          page, form, item, localStorage, sent, pending, list, feed>>

----------------------------------------------------------------------------
(* Bounds of the model. *)

MaxComments == 3
MaxTime == 1
MaxPage == 2
MaxCalls == 2
MaxLiked == 2
MaxListed == 2

----------------------------------------------------------------------------
(* SQL NULL, for text, for series/episode ids and for comment ids. *)

NULLTEXT == << <<"NULL", 0>> >>
NULL == "NULL"
NULLCID == 0

(* CHECK (... length(content) <= 2000), CHECK (... length(author_name) <= 100) *)
MaxContentLen == 2000
MaxNameLen == 100

----------------------------------------------------------------------------
(* Text. *)
(* A text value is the sequence of its runs <<c, n>>, the character c      *)
(* repeated n >= 1 times, neighbouring runs holding different characters:  *)
(* " hi" is << <<" ", 1>>, <<"h", 1>>, <<"i", 1>> >>.                      *)

Rep(c, n) == << <<c, n>> >>

(* The text of a sequence of characters no two neighbours of which are equal. *)
Lit(chars) == [i \in 1..Len(chars) |-> <<chars[i], 1>>]

Str_hi == Lit(<<"h", "i">>)
Str_Al == Lit(<<"A", "l">>)
Str_email == Lit(<<"a", "@", "b", ".", "c", "o">>)
Pad(s) == Rep(" ", 1) \o s \o Rep(" ", 1)

(* PostgreSQL trim(text): removes the spaces at both ends. *)
trim(s) ==
    IF \A i \in 1..Len(s) : s[i][1] = " " THEN <<>>
    ELSE LET first == CHOOSE i \in 1..Len(s) :
                         s[i][1] # " " /\ \A j \in 1..(i - 1) : s[j][1] = " "
             last == CHOOSE i \in 1..Len(s) :
                         s[i][1] # " " /\ \A j \in (i + 1)..Len(s) : s[j][1] = " "
         IN SubSeq(s, first, last)

(* PostgreSQL length(text): the number of characters. *)
RECURSIVE length(_)
length(s) == IF s = <<>> THEN 0 ELSE s[1][2] + length(Tail(s))

(* The characters of a text, one by one. *)
RECURSIVE chars_of(_)
chars_of(s) ==
    IF s = <<>> THEN <<>>
    ELSE [i \in 1..s[1][2] |-> s[1][1]] \o chars_of(Tail(s))

Letters == {"a", "b", "c", "h", "i", "l", "o", "x", "A"}
Digits == {"1", "2"}
LocalChars == Letters \cup Digits \cup {".", "_", "%", "+", "-"}
DomainChars == Letters \cup Digits \cup {".", "-"}

(* text ~* '^[A-Za-z0-9._%+-]+@[A-Za-z0-9.-]+\.[A-Za-z]{2,}$' *)
email_matches(text) ==
    LET s == chars_of(text)
    IN \E at \in 2..Len(s) : \E dot \in (at + 2)..(Len(s) - 2) :
        /\ s[at] = "@"
        /\ s[dot] = "."
        /\ \A i \in 1..(at - 1) : s[i] \in LocalChars
        /\ \A i \in (at + 1)..(dot - 1) : s[i] \in DomainChars
        /\ \A i \in (dot + 1)..Len(s) : s[i] \in Letters

----------------------------------------------------------------------------
(* The tables. *)

(* The rows of series and episodes that exist; "s9" and "e9" name no row. *)
SeriesIds == {"s1", "s2"}
EpisodeIds == {"e1"}

(* series and episodes are written elsewhere; every episode is of series s1. *)
SeriesRows == [s \in SeriesIds |-> [status |-> "ongoing", views |-> 0, updated_at |-> 0]]
EpisodeRows == [e \in EpisodeIds |-> [series_id |-> "s1"]]

(* comments.id: the n-th row inserted has id n (gen_random_uuid() is fresh). *)
CommentIds == {comments[i].id : i \in 1..Len(comments)}
comment(cid) == comments[CHOOSE i \in 1..Len(comments) : comments[i].id = cid]

(* The table without its length and email checks. *)
comments_check_lax(row) ==
    length(trim(row.content)) > 0 /\ length(trim(row.author_name)) > 0

(* CHECK constraints of table comments. *)
comments_check(row) ==
    /\ length(trim(row.content)) > 0 /\ length(row.content) <= MaxContentLen
    /\ length(trim(row.author_name)) > 0 /\ length(row.author_name) <= MaxNameLen
    /\ (row.author_email = NULLTEXT \/ email_matches(row.author_email))

series_exists(sid) == sid \in DOMAIN series

(* The episode looked up by its id alone. *)
episode_exists_any_series(eid, sid) == eid \in DOMAIN episodes

(* EXISTS(SELECT 1 FROM episodes WHERE id = p_episode_id AND series_id = p_series_id) *)
episode_exists(eid, sid) ==
    eid \in DOMAIN episodes /\ episodes[eid].series_id = sid

(* The parent looked up by its id alone. *)
parent_exists_any_series(pid, sid) ==
    \E i \in 1..Len(comments) : comments[i].id = pid

(* EXISTS(SELECT 1 FROM comments WHERE id = p_parent_id AND series_id = p_series_id) *)
parent_exists(pid, sid) ==
    \E i \in 1..Len(comments) : comments[i].id = pid /\ comments[i].series_id = sid

----------------------------------------------------------------------------
(* create_comment(p_content, p_author_name, p_author_email, p_series_id,   *)
(*                p_episode_id, p_parent_id)                               *)

NoRow == [id |-> NULLCID]

Raise(msg) == [status |-> "error", error |-> msg, row |-> NoRow, comments |-> comments]

(* CASE WHEN p_author_email IS NOT NULL AND length(trim(p_author_email)) > 0
   THEN trim(p_author_email) ELSE NULL END *)
email_value(e) ==
    IF e # NULLTEXT /\ length(trim(e)) > 0 THEN trim(e) ELSE NULLTEXT

(* The content stored as given, not trimmed. *)
new_comment_row_untrimmed(p) ==
    [id |-> Len(comments) + 1,
     content |-> p.content,
     author_name |-> trim(p.author_name),
     author_email |-> email_value(p.author_email),
     series_id |-> p.series_id,
     episode_id |-> p.episode_id,
     parent_id |-> p.parent_id,
     likes_count |-> 0,
     created_at |-> now,
     updated_at |-> now]

(* The row of INSERT INTO comments (...) VALUES (...), defaults filled in. *)
new_comment_row(p) ==
    [id |-> Len(comments) + 1,
     content |-> trim(p.content),
     author_name |-> trim(p.author_name),
     author_email |-> email_value(p.author_email),
     series_id |-> p.series_id,
     episode_id |-> p.episode_id,
     parent_id |-> p.parent_id,
     likes_count |-> 0,
     created_at |-> now,
     updated_at |-> now]

(* An insert that also resets the like counter of the parent. *)
insert_comment_resetting_parent(row) ==
    [status |-> "ok", error |-> "", row |-> row,
     comments |-> Append([i \in 1..Len(comments) |->
                            IF comments[i].id = row.parent_id
                            THEN [comments[i] EXCEPT !.likes_count = 0]
                            ELSE comments[i]], row)]

(* INSERT ... RETURNING * INTO new_comment: the row is stored when the table's
   CHECK constraints accept it, and the statement raises otherwise. *)
insert_comment(row) ==
    IF comments_check(row)
    THEN [status |-> "ok", error |-> "", row |-> row, comments |-> Append(comments, row)]
    ELSE Raise("check_violation")

create_comment(p) ==
    IF p.content = NULLTEXT \/ length(trim(p.content)) = 0
    THEN Raise("Comment content is required")
    ELSE IF p.author_name = NULLTEXT \/ length(trim(p.author_name)) = 0
    THEN Raise("Author name is required")
    ELSE IF p.series_id = NULL
    THEN Raise("Series ID is required")
    ELSE IF ~series_exists(p.series_id)
    THEN Raise("Series not found")
    ELSE IF p.episode_id # NULL /\ ~episode_exists(p.episode_id, p.series_id)
    THEN Raise("Episode not found or does not belong to the specified series")
    ELSE IF p.parent_id # NULLCID /\ ~parent_exists(p.parent_id, p.series_id)
    THEN Raise("Parent comment not found or does not belong to the specified series")
    ELSE insert_comment(new_comment_row(p))

----------------------------------------------------------------------------
(* toggle_comment_like(p_comment_id, p_user_identifier), statement by      *)
(* statement.  comment_likes is a bag of (comment_id, user_identifier)     *)
(* rows: the table itself can hold a pair twice, and it is the UNIQUE      *)
(* constraint, checked by the INSERT, that refuses the second row.         *)

like_key(cid, uid) == <<cid, uid>>

(* EXISTS(SELECT 1 FROM comment_likes WHERE comment_id = ... AND user_identifier = ...) *)
like_exists(likes, cid, uid) == BagIn(like_key(cid, uid), likes)

(* A DELETE that deletes nothing. *)
delete_like_nothing(likes, cid, uid) == likes

(* DELETE FROM comment_likes WHERE comment_id = ... AND user_identifier = ... *)
delete_like(likes, cid, uid) ==
    [k \in DOMAIN likes \ {like_key(cid, uid)} |-> likes[k]]

(* The table without its foreign key. *)
fk_violation_never(cs, cid) == FALSE

(* The parameters checked for null only. *)
invalid_toggle_parameters_null_only(cid, uid) ==
    cid = NULLCID \/ uid = NULLTEXT

(* The UPDATE without its WHERE clause. *)
update_likes_count_everywhere(cs, cid, delta) ==
    [i \in 1..Len(cs) |->
        [cs[i] EXCEPT !.likes_count = @ + delta, !.updated_at = now]]

(* The table without its UNIQUE constraint. *)
unique_violation_never(likes, cid, uid) == FALSE

(* UNIQUE(comment_id, user_identifier) *)
unique_violation(likes, cid, uid) == BagIn(like_key(cid, uid), likes)

(* comment_id uuid NOT NULL REFERENCES comments(id) *)
fk_violation(cs, cid) == \A i \in 1..Len(cs) : cs[i].id # cid

(* INSERT INTO comment_likes (comment_id, user_identifier) VALUES (...) *)
insert_like(likes, cs, cid, uid) ==
    IF unique_violation(likes, cid, uid)
    THEN [status |-> "error", error |-> "unique_violation", likes |-> likes]
    ELSE IF fk_violation(cs, cid)
    THEN [status |-> "error", error |-> "foreign_key_violation", likes |-> likes]
    ELSE [status |-> "ok", error |-> "",
          likes |-> likes (+) SetToBag({like_key(cid, uid)})]

(* Both branches incrementing. *)
update_likes_count_up(cs, cid, delta) ==
    [i \in 1..Len(cs) |->
        IF cs[i].id = cid
        THEN [cs[i] EXCEPT !.likes_count = @ + 1, !.updated_at = now]
        ELSE cs[i]]

(* UPDATE comments SET likes_count = likes_count + delta, updated_at = now()
   WHERE id = p_comment_id *)
update_likes_count(cs, cid, delta) ==
    [i \in 1..Len(cs) |->
        IF cs[i].id = cid
        THEN [cs[i] EXCEPT !.likes_count = @ + delta, !.updated_at = now]
        ELSE cs[i]]

(* RETURNING the count the row had before the UPDATE. *)
returned_likes_count_before(cs, cid) ==
    LET hit == {i \in 1..Len(comments) : comments[i].id = cid}
    IN IF hit = {} THEN NULL ELSE comments[CHOOSE i \in hit : TRUE].likes_count

(* ... RETURNING likes_count INTO new_likes_count *)
returned_likes_count(cs, cid) ==
    LET hit == {i \in 1..Len(cs) : cs[i].id = cid}
    IN IF hit = {} THEN NULL ELSE cs[CHOOSE i \in hit : TRUE].likes_count

invalid_toggle_parameters(cid, uid) ==
    cid = NULLCID \/ uid = NULLTEXT \/ length(trim(uid)) = 0

ToggleError(msg) ==
    [status |-> "error", error |-> msg, action |-> "", likes_count |-> NULL,
     user_liked |-> FALSE, likes |-> comment_likes, comments |-> comments]

(* The whole call, when no other call runs between its statements. *)
toggle_comment_like(cid, uid) ==
    IF invalid_toggle_parameters(cid, uid)
    THEN ToggleError("Invalid parameters")
    ELSE IF like_exists(comment_likes, cid, uid)
    THEN LET cs == update_likes_count(comments, cid, -1)
         IN [status |-> "ok", error |-> "", action |-> "unliked",
             likes_count |-> returned_likes_count(cs, cid),
             user_liked |-> FALSE,
             likes |-> delete_like(comment_likes, cid, uid), comments |-> cs]
    ELSE LET ins == insert_like(comment_likes, comments, cid, uid)
             cs == update_likes_count(comments, cid, 1)
         IN IF ins.status = "error" THEN ToggleError(ins.error)
            ELSE [status |-> "ok", error |-> "", action |-> "liked",
                  likes_count |-> returned_likes_count(cs, cid),
                  user_liked |-> TRUE,
                  likes |-> ins.likes, comments |-> cs]

(* The number of comment_likes rows of a comment. *)
like_rows(likes, cid) ==
    BagCardinality([k \in {x \in DOMAIN likes : x[1] = cid} |-> likes[k]])

----------------------------------------------------------------------------
(* get_comments_with_stats(p_series_id, p_episode_id, p_limit, p_offset)   *)

(* COUNT over the joined rows: a comment without replies still has its one
   joined row, and counts 1. *)
reply_count_of_join(cid) ==
    LET n == Cardinality({j \in 1..Len(comments) :
                 comments[j].parent_id # NULLCID /\ comments[j].parent_id = cid})
    IN IF n = 0 THEN 1 ELSE n

(* COALESCE(reply_counts.reply_count, 0): the count of the comments grouped
   under parent_id = c.id. *)
reply_count(cid) ==
    Cardinality({j \in 1..Len(comments) :
        comments[j].parent_id # NULLCID /\ comments[j].parent_id = cid})

(* The WHERE clause without c.parent_id IS NULL. *)
stats_where_with_replies(c, sid, eid) ==
    c.series_id = sid /\ (eid = NULL \/ c.episode_id = eid)

(* WHERE c.series_id = p_series_id
     AND (p_episode_id IS NULL OR c.episode_id = p_episode_id)
     AND c.parent_id IS NULL *)
stats_where(c, sid, eid) ==
    /\ c.series_id = sid
    /\ (eid = NULL \/ c.episode_id = eid)
    /\ c.parent_id = NULLCID

stats_row(c) ==
    [id |-> c.id, content |-> c.content, author_name |-> c.author_name,
     author_email |-> c.author_email, series_id |-> c.series_id,
     episode_id |-> c.episode_id, parent_id |-> c.parent_id,
     likes_count |-> c.likes_count, reply_count |-> reply_count(c.id),
     created_at |-> c.created_at, updated_at |-> c.updated_at]

(* ORDER BY c.created_at DESC: every order of the matching rows that is
   descending in created_at; rows of equal created_at come in any order. *)
stats_orderings(sid, eid) ==
    LET hit == {i \in 1..Len(comments) : stats_where(comments[i], sid, eid)}
        n == Cardinality(hit)
    IN {o \in [1..n -> hit] :
            /\ \A i, j \in 1..n : i # j => o[i] # o[j]
            /\ \A i, j \in 1..n :
                   i < j => comments[o[i]].created_at >= comments[o[j]].created_at}

(* LIMIT alone: the rows are counted from the first, whatever the offset. *)
limit_offset_from_first(rows, lim, off) ==
    SubSeq(rows, 1, IF lim < Len(rows) THEN lim ELSE Len(rows))

(* LIMIT p_limit OFFSET p_offset *)
limit_offset(rows, lim, off) ==
    SubSeq(rows, off + 1, IF off + lim < Len(rows) THEN off + lim ELSE Len(rows))

(* The results the query may return. *)
get_comments_with_stats(sid, eid, lim, off) ==
    {limit_offset([i \in 1..Len(o) |-> stats_row(comments[o[i]])], lim, off) :
        o \in stats_orderings(sid, eid)}

----------------------------------------------------------------------------
(* admin_update_series_status(admin_code, p_series_id, p_status), from      *)
(* supabase/migrations/20250814034445_soft_queen.sql.                       *)

(* 'Shivam2008' *)
AdminCode == Lit(<<"S", "h", "i", "v", "a", "m", "2">>) \o Rep("0", 2) \o Rep("8", 1)

(* IF admin_code <> 'Shivam2008' THEN ...: the comparison of a null admin_code
   yields null, and IF takes a null condition as not true. *)
code_differs(admin_code) == admin_code # NULLTEXT /\ admin_code # AdminCode

AdminError(msg) == [status |-> "error", error |-> msg, series |-> series]

(* UPDATE public.series SET status = p_status, updated_at = now()
   WHERE id = p_series_id; a null p_series_id matches no row, and a null
   p_status is refused by the column's NOT NULL when a row matches. *)
admin_update_series_status(admin_code, sid, status) ==
    IF code_differs(admin_code)
    THEN AdminError("Unauthorized")
    ELSE IF sid \notin DOMAIN series
    THEN AdminError("Series not found")
    ELSE IF status = NULL
    THEN AdminError("not_null_violation")
    ELSE [status |-> "ok", error |-> "",
          series |-> [series EXCEPT ![sid] =
                         [@ EXCEPT !.status = status, !.updated_at = now]]]

----------------------------------------------------------------------------
(* The arguments the calls are made with. *)

Long(n) == Rep("x", n)

ContentArgs ==
    {NULLTEXT, <<>>, Rep(" ", 2), Pad(Str_hi), Long(MaxContentLen + 1)}
NameArgs ==
    {NULLTEXT, Rep(" ", 1), Pad(Str_Al), Long(MaxNameLen + 1)}
EmailArgs ==
    {NULLTEXT, <<>>, Rep(" ", 1), Pad(Str_email), Lit(<<"a", "@", "b">>)}
SeriesArgs == SeriesIds \cup {NULL, "s9"}
EpisodeArgs == EpisodeIds \cup {NULL, "e9"}
ParentArgs == 0..(MaxComments + 1)

(* The text fields: one field away from a plain valid call, and a call with
   every field at its limit. *)
BaseText == [content |-> Pad(Str_hi), author_name |-> Pad(Str_Al), author_email |-> NULLTEXT]
TextArgs ==
    {[BaseText EXCEPT !.content = c] : c \in ContentArgs}
    \cup {[BaseText EXCEPT !.author_name = a] : a \in NameArgs}
    \cup {[BaseText EXCEPT !.author_email = e] : e \in EmailArgs}
    \cup {[content |-> Pad(Long(MaxContentLen)), author_name |-> Long(MaxNameLen),
           author_email |-> Pad(Str_email)]}

CallArgs(t, s, e, q) ==
    [content |-> t.content, author_name |-> t.author_name,
     author_email |-> t.author_email,
     series_id |-> s, episode_id |-> e, parent_id |-> q]

(* Plain text, and the series with every episode and with every parent. *)
PlainArgs ==
    {CallArgs(BaseText, s, e, NULLCID) : s \in SeriesArgs, e \in EpisodeArgs}
    \cup {CallArgs(BaseText, s, NULL, q) : s \in SeriesArgs, q \in ParentArgs}

(* ... and every text with the ids of a top-level comment of series s1. *)
CreateArgs ==
    PlainArgs \cup {CallArgs(t, "s1", NULL, NULLCID) : t \in TextArgs}

User1 == Lit(<<"u", "1">>)
User2 == Lit(<<"u", "2">>)
UserArgs == {User1, User2, NULLTEXT, Rep(" ", 1)}
ToggleCids == 0..(MaxLiked + 1)

(* The code, no code, a wrong code, and the code with a space after it. *)
CodeArgs == {AdminCode, NULLTEXT, Lit(<<"n", "o">>), AdminCode \o Rep(" ", 1)}
StatusValues == {"ongoing", "completed"}
StatusArgs == StatusValues \cup {NULL}

----------------------------------------------------------------------------
(* The browser.  A call sent by the client is an entry of sent; pending     *)
(* holds the positions of the calls that have not been answered.           *)

(* The calls the client makes in one run. *)
MaxSent == 3

send(call) ==
    /\ Len(sent) < MaxSent
    /\ sent' = Append(sent, call)
    /\ pending' = pending \cup {Len(sent) + 1}

----------------------------------------------------------------------------
(* pages/SeriesDetail.tsx.  The component's state is changed by its event   *)
(* handlers; its effects run when React next commits a render, which is a  *)
(* later task of the browser than the window message or the timer callback *)
(* that changed the state.                                                 *)

(* useState("dailymotion"), useState(undefined) *)
NoVideo == <<"dailymotion", NULL>>
Videos == {<<"dailymotion", "v1">>, <<"youtube", "v2">>}

(* watchStartTime: null *)
NULLTIME == -1

(* played: the player of the current video has reported a play event. *)
PageClosed ==
    [phase |-> "closed", id |-> NULL, video |-> NoVideo, player |-> "idle",
     played |-> FALSE,
     isWatching |-> FALSE, watchStartTime |-> NULLTIME, totalViewsAdded |-> 0,
     timer_deps |-> FALSE, reset_deps |-> NoVideo, intervals |-> 0]

(* supabase.rpc("increment_series_view", { p_series_id: id }) *)
increment_series_view(id, by) ==
    [op |-> "increment_series_view", series_id |-> id, by |-> by]

(* An effect that returns no cleanup: the interval of the last run stays. *)
timer_cleanup_missing(p) == p.intervals

(* return () => { if (interval) clearInterval(interval) }: the interval the
   last run of the effect has set, if it has set one, is cleared. *)
timer_cleanup(p) ==
    IF p.timer_deps /\ p.id # NULL THEN p.intervals - 1 ELSE p.intervals

(* if (isWatching && id) interval = setInterval(..., 5000) *)
timer_setup(n, isWatching, id) ==
    IF isWatching /\ id # NULL THEN n + 1 ELSE n

(* The page is opened on /series/:id: the first render, and its effects in
   the order of the source.  The load effect increments the views once; the
   timer effect sets no interval; the reset effect sets the initial state. *)
Mount(id) ==
    /\ page.phase = "closed"
    /\ page' = [PageClosed EXCEPT !.phase = "open", !.id = id,
                                  !.totalViewsAdded = 1]
    /\ IF id # NULL
       THEN send(increment_series_view(id, "load"))
       ELSE UNCHANGED <<sent, pending>>
    /\ UNCHANGED <<series, episodes, comments, comment_likes, now, ret, procs,
                   form, item, localStorage, list, feed>>

(* The state the player reports by its event. *)
player_after(e) ==
    IF e = "play" THEN "playing" ELSE IF e = "pause" THEN "paused" ELSE "ended"

(* handlePlayerStart, handlePlayerPause, handlePlayerEnd: called by the player
   wrapper when the player's window message reports play, pause or end. *)
handlePlayer(p, e) ==
    IF e = "play"
    THEN [p EXCEPT !.player = player_after(e), !.played = TRUE,
                   !.isWatching = TRUE, !.watchStartTime = now]
    ELSE [p EXCEPT !.player = player_after(e), !.isWatching = FALSE]

PlayerEvent(e) ==
    /\ page.phase = "open"
    /\ page' = handlePlayer(page, e)
    /\ UNCHANGED <<series, episodes, comments, comment_likes, now, ret, procs,
                   form, item, localStorage, sent, pending, list, feed>>

(* setProvider(...); setCurrentId(...): an episode is chosen, or the series
   and episodes queries have loaded.  The render of one change of the video
   is committed before the next change is made. *)
SelectVideo(v) ==
    /\ page.phase = "open"
    /\ v # page.video
    /\ page.video = page.reset_deps
    /\ page' = [page EXCEPT !.video = v, !.played = FALSE]
    /\ UNCHANGED <<series, episodes, comments, comment_likes, now, ret, procs,
                   form, item, localStorage, sent, pending, list, feed>>

(* A reset effect that leaves isWatching as it is. *)
reset_effect_keeps_watching(p) ==
    [p EXCEPT !.watchStartTime = NULLTIME, !.totalViewsAdded = 1]

(* setIsWatching(false); setWatchStartTime(null); setTotalViewsAdded(1) *)
reset_effect(p) ==
    [p EXCEPT !.isWatching = FALSE, !.watchStartTime = NULLTIME,
              !.totalViewsAdded = 1]

(* React commits the render of the changed state and runs the effects whose
   dependencies have changed: the timer effect ([isWatching, id]) clears its
   interval and sets a new one when the page is watching, and the reset effect
   ([currentId, provider]) sets isWatching to false for the next render. *)
RunEffects ==
    LET timer == page.isWatching # page.timer_deps
        reset == page.video # page.reset_deps
        cleared == IF timer THEN timer_cleanup(page) ELSE page.intervals
        started == IF timer THEN timer_setup(cleared, page.isWatching, page.id)
                   ELSE cleared
    IN /\ page.phase = "open"
       /\ timer \/ reset
       /\ page' = LET p == [page EXCEPT !.intervals = started,
                                        !.timer_deps = page.isWatching,
                                        !.reset_deps = page.video]
                  IN IF reset THEN reset_effect(p) ELSE p
       /\ UNCHANGED <<series, episodes, comments, comment_likes, now, ret, procs,
                      form, item, localStorage, sent, pending, list, feed>>

(* The callback of setInterval runs: one more increment_series_view is sent. *)
TimerTick ==
    /\ page.intervals > 0
    /\ send(increment_series_view(page.id, "tick"))
    /\ UNCHANGED <<series, episodes, comments, comment_likes, now, ret, procs,
                   page, form, item, localStorage, list, feed>>

(* catch (error) { console.error("Failed to increment view:", error) }: the
   catch of the timer's callback is entered when the awaited call throws.  The
   load effect has .then() alone. *)
logs_failure(by, outcome) == by = "tick" /\ outcome = "thrown"

(* The call returns.  The promise of supabase.rpc resolves, with data or with
   an error ({ data, error }, as the other calls of the client read it), or
   the request throws; resolved, the code after the await runs:
   setTotalViewsAdded(1) after the load, prev + 1 after a tick.  ret holds what
   the call came to. *)
IncrementReturns(i, outcome) ==
    /\ i \in pending
    /\ sent[i].op = "increment_series_view"
    /\ pending' = pending \ {i}
    /\ page' =
         IF outcome = "thrown" \/ page.phase # "open" THEN page
         ELSE IF sent[i].by = "load"
         THEN [page EXCEPT !.totalViewsAdded = 1]
         ELSE [page EXCEPT !.totalViewsAdded = @ + 1]
    /\ ret' = [op |-> "increment_series_view", by |-> sent[i].by,
               status |-> outcome, logged |-> logs_failure(sent[i].by, outcome)]
    /\ UNCHANGED <<series, episodes, comments, comment_likes, now, procs,
                   form, item, localStorage, sent, list, feed>>

(* The page is left: the cleanup of the timer effect runs. *)
Unmount ==
    /\ page.phase = "open"
    /\ page' = [page EXCEPT !.phase = "left", !.intervals = timer_cleanup(page)]
    /\ UNCHANGED <<series, episodes, comments, comment_likes, now, ret, procs,
                   form, item, localStorage, sent, pending, list, feed>>

NextViews ==
    \/ \E id \in SeriesIds \cup {NULL} : Mount(id)
    \/ \E e \in {"play", "pause", "ended"} : PlayerEvent(e)
    \/ \E v \in Videos : SelectVideo(v)
    \/ RunEffects
    \/ TimerTick
    \/ \E i \in 1..MaxSent, outcome \in {"data", "error", "thrown"} :
          IncrementReturns(i, outcome)
    \/ Unmount

----------------------------------------------------------------------------
(* The player wrappers: components/player/DailymotionPlayer.tsx and         *)
(* YouTubePlayer.  Each listens to the window's message events while it is *)
(* mounted, and calls onPlay, onPause or onEnded of the page.              *)

(* 'https://www.dailymotion.com' of DailymotionPlayer, 'https://www.youtube.com'
   of YouTubePlayer. *)
player_origin(provider) ==
    IF provider = "dailymotion" THEN "https://www.dailymotion.com"
    ELSE "https://www.youtube.com"

(* event.data: a string or a value.  A string is the JSON text of a value, or
   no JSON text at all; a value is null or an object with the fields event
   and info.playerState, which may be absent. *)
MessageData ==
    LET object(event, info, playerState) ==
            [null |-> FALSE, event |-> event, info |-> info,
             playerState |-> playerState]
        values ==
            {[null |-> TRUE, event |-> "undefined", info |-> FALSE,
              playerState |-> 0],
             object("undefined", FALSE, 0), object("video-play", FALSE, 0),
             object("video-pause", FALSE, 0), object("video-end", FALSE, 0),
             object("video-progress", FALSE, 0)}
            \cup {object("video-progress", TRUE, st) : st \in 0..2}
    IN {[string |-> str, json |-> str, value |-> v] :
            str \in BOOLEAN, v \in values}
       \cup {[string |-> TRUE, json |-> FALSE, value |-> object("undefined", FALSE, 0)]}

(* typeof event.data === 'string' ? JSON.parse(event.data) : event.data;
   JSON.parse throws on a text that is no JSON. *)
parse_data(d) == [thrown |-> d.string /\ ~d.json, data |-> d.value]

(* An origin test that lets every origin pass. *)
origin_refused_never(provider, origin) == FALSE

(* if (event.origin !== 'https://www.dailymotion.com') return;
   if (event.origin !== 'https://www.youtube.com') return; *)
origin_refused(provider, origin) == origin # player_origin(provider)

(* switch (data.event) of DailymotionPlayer *)
dailymotion_callback(data) ==
    IF data.event = "video-play" THEN "play"
    ELSE IF data.event = "video-pause" THEN "pause"
    ELSE IF data.event = "video-end" THEN "ended"
    ELSE "none"

(* if (data.event === 'video-progress') switch (data.info?.playerState) *)
youtube_callback(data) ==
    IF data.event # "video-progress" \/ ~data.info THEN "none"
    ELSE IF data.playerState = 1 THEN "play"
    ELSE IF data.playerState = 2 THEN "pause"
    ELSE IF data.playerState = 0 THEN "ended"
    ELSE "none"

(* handleMessage of the wrapper of provider: the callback it calls, if any.
   Reading data.event of null throws, inside the try. *)
handleMessage(provider, origin, d) ==
    IF origin_refused(provider, origin) THEN "none"
    ELSE IF parse_data(d).thrown \/ parse_data(d).data.null THEN "none"
    ELSE IF provider = "dailymotion" THEN dailymotion_callback(parse_data(d).data)
    ELSE youtube_callback(parse_data(d).data)

(* A message event is delivered to the window.  The wrapper mounted is the
   one of the provider of the render last committed:
   {provider === "dailymotion" ? <DailymotionPlayer/> : <YouTubePlayer/>}.
   ret holds the message, and the callback the wrapper has called. *)
WindowMessage(origin, d) ==
    LET cb == handleMessage(page.reset_deps[1], origin, d)
    IN /\ page.phase = "open"
       /\ page' = IF cb = "none" THEN page ELSE handlePlayer(page, cb)
       /\ ret' = [op |-> "message", origin |-> origin, data |-> d,
                  callback |-> cb,
                  turn |-> IF ret.op = "message" THEN ~ret.turn ELSE TRUE]
       /\ UNCHANGED <<series, episodes, comments, comment_likes, now, procs,
                      form, item, localStorage, sent, pending, list, feed>>

(* The page with its player, and the messages of the window: of the
   providers' origins and of two others. *)
NextPlayer ==
    \/ \E id \in SeriesIds : Mount(id)
    \/ \E v \in Videos : SelectVideo(v)
    \/ RunEffects
    \/ \E origin \in {player_origin("dailymotion"), player_origin("youtube"),
                       "https://www.youtube.com.example.org",
                       "http://www.dailymotion.com"}, d \in MessageData :
          WindowMessage(origin, d)

----------------------------------------------------------------------------
(* The comment form (CommentForm) of series s1 and the comment shown        *)
(* (CommentItem) of comment 1.  Their handlers are run by React for a      *)
(* click or a submit, and the render that follows is committed before the  *)
(* browser delivers the next event.                                        *)

(* String.prototype.trim(): white space is removed at both ends. *)
WhiteSpace == {" ", "\t", "\n"}
js_trim(s) ==
    IF \A i \in 1..Len(s) : s[i][1] \in WhiteSpace THEN <<>>
    ELSE LET first == CHOOSE i \in 1..Len(s) :
                         s[i][1] \notin WhiteSpace
                         /\ \A j \in 1..(i - 1) : s[j][1] \in WhiteSpace
             last == CHOOSE i \in 1..Len(s) :
                         s[i][1] \notin WhiteSpace
                         /\ \A j \in (i + 1)..Len(s) : s[j][1] \in WhiteSpace
         IN SubSeq(s, first, last)

(* value || null *)
or_null(s) == IF s = <<>> THEN NULLTEXT ELSE s

(* useState(""), useState(false) *)
FormEmpty ==
    [content |-> <<>>, authorName |-> <<>>, authorEmail |-> <<>>,
     isSubmitting |-> FALSE, commentAdded |-> 0]

StorageEmpty ==
    [liked_comments |-> <<>>, comment_author_name |-> NULLTEXT,
     comment_author_email |-> NULLTEXT]

(* useState(() => likedComments.includes(comment.id)), useState(comment.likes_count) *)
ItemShown(c) ==
    [comment_id |-> c.id,
     userLiked |-> \E k \in 1..Len(localStorage.liked_comments) :
                       localStorage.liked_comments[k] = c.id,
     likesCount |-> c.likes_count]

NoItem == [comment_id |-> NULLCID, userLiked |-> FALSE, likesCount |-> 0]

(* What is typed into the form: the textarea and the inputs take at most 2000
   and 100 characters, and the browser takes a@b for an email address. *)
FormContents == {<<>>, Rep(" ", 1), Pad(Str_hi)}
FormNames == {<<>>, Str_Al}
FormEmails == {<<>>, Lit(<<"a", "@", "b">>)}

(* onChange={(e) => setContent(e.target.value)}, and so for the name and email *)
TypeInto(field, value) ==
    /\ form[field] # value
    /\ form' = [form EXCEPT ![field] = value]
    /\ UNCHANGED <<series, episodes, comments, comment_likes, now, ret, procs,
                   page, item, localStorage, sent, pending, list, feed>>

(* The submit button wherever it is not disabled. *)
submit_enabled_while_submitting(f) ==
    js_trim(f.content) # <<>> /\ js_trim(f.authorName) # <<>>

(* disabled={isSubmitting || !content.trim() || !authorName.trim()} *)
submit_enabled(f) ==
    ~f.isSubmitting /\ js_trim(f.content) # <<>> /\ js_trim(f.authorName) # <<>>

(* supabase.rpc("create_comment", {...}) of the form of series s1 *)
create_comment_call(f) ==
    [op |-> "create_comment", by |-> "submit",
     args |-> [content |-> js_trim(f.content),
               author_name |-> js_trim(f.authorName),
               author_email |-> or_null(js_trim(f.authorEmail)),
               series_id |-> "s1", episode_id |-> NULL, parent_id |-> NULLCID]]

(* handleSubmit, up to the await: the form is submitted, which its button
   allows; the fields are validated, isSubmitting is set, the call is sent. *)
Submit ==
    /\ submit_enabled(form)
    /\ js_trim(form.content) # <<>>
    /\ js_trim(form.authorName) # <<>>
    /\ form' = [form EXCEPT !.isSubmitting = TRUE]
    /\ send(create_comment_call(form))
    /\ UNCHANGED <<series, episodes, comments, comment_likes, now, ret, procs,
                   page, item, localStorage, list, feed>>

(* handleSubmit without its finally block: after an error the form is left
   submitting. *)
CreateReturns_without_finally(i, reached) ==
    LET r == IF reached THEN create_comment(sent[i].args) ELSE Raise("Failed to fetch")
        f == form
    IN /\ i \in pending
       /\ sent[i].op = "create_comment"
       /\ r.status = "ok" => Len(comments) < MaxSent + 1
       /\ pending' = pending \ {i}
       /\ comments' = r.comments
       /\ ret' = [op |-> "create_comment", status |-> r.status,
                  error |-> r.error, row |-> r.row]
       /\ IF r.status = "ok"
          THEN /\ form' = [f EXCEPT !.content = <<>>, !.isSubmitting = FALSE,
                                    !.commentAdded = @ + 1]
               /\ localStorage' = [localStorage EXCEPT
                      !.comment_author_name = js_trim(f.authorName),
                      !.comment_author_email =
                          IF js_trim(f.authorEmail) # <<>>
                          THEN js_trim(f.authorEmail) ELSE @]
          ELSE UNCHANGED <<form, localStorage>>
       /\ UNCHANGED <<series, episodes, comment_likes, now, procs, page, item, sent, list, feed>>

(* handleSubmit, after the await.  The store runs create_comment and answers,
   or the request fails on the way.  On an error: a toast, nothing else; on
   success: the name and email are saved, the content is cleared and
   onCommentAdded is called; in both cases isSubmitting is set to false. *)
CreateReturns(i, reached) ==
    LET r == IF reached THEN create_comment(sent[i].args) ELSE Raise("Failed to fetch")
        f == form
    IN /\ i \in pending
       /\ sent[i].op = "create_comment"
       /\ r.status = "ok" => Len(comments) < MaxSent + 1
       /\ pending' = pending \ {i}
       /\ comments' = r.comments
       /\ ret' = [op |-> "create_comment", status |-> r.status,
                  error |-> r.error, row |-> r.row]
       /\ IF r.status = "ok"
          THEN /\ form' = [f EXCEPT !.content = <<>>, !.isSubmitting = FALSE,
                                    !.commentAdded = @ + 1]
               /\ localStorage' = [localStorage EXCEPT
                      !.comment_author_name = js_trim(f.authorName),
                      !.comment_author_email =
                          IF js_trim(f.authorEmail) # <<>>
                          THEN js_trim(f.authorEmail) ELSE @]
          ELSE /\ form' = [f EXCEPT !.isSubmitting = FALSE]
               /\ localStorage' = localStorage
       /\ UNCHANGED <<series, episodes, comment_likes, now, procs, page, item, sent, list, feed>>

(* `user_${Date.now()}_${Math.random()}`: a new identifier at each click. *)
click_identifier(k) == Lit(<<"u", ToString(k)>>)

(* handleLike, up to the await: the heart of the comment shown is clicked. *)
LikeClick ==
    /\ item.comment_id # NULLCID
    /\ send([op |-> "toggle_comment_like", by |-> "like",
             comment_id |-> item.comment_id,
             user_identifier |-> click_identifier(Len(sent) + 1)])
    /\ UNCHANGED <<series, episodes, comments, comment_likes, now, ret, procs,
                   page, form, item, localStorage, list, feed>>

(* liked_comments after the result: push(comment.id), or splice of the first
   occurrence of comment.id. *)
liked_after(liked, cid, newLikedState) ==
    IF newLikedState THEN Append(liked, cid)
    ELSE IF \E k \in 1..Len(liked) : liked[k] = cid
    THEN LET at == CHOOSE k \in 1..Len(liked) :
                      liked[k] = cid /\ \A j \in 1..(k - 1) : liked[j] # cid
         IN SubSeq(liked, 1, at - 1) \o SubSeq(liked, at + 1, Len(liked))
    ELSE liked

(* handleLike, after the await.  The store runs toggle_comment_like and
   answers, or the request fails on the way.  On an error: a toast; on
   success: the heart, the count and liked_comments are set. *)
ToggleReturns(i, reached) ==
    LET r == IF reached
             THEN toggle_comment_like(sent[i].comment_id, sent[i].user_identifier)
             ELSE ToggleError("Failed to fetch")
    IN /\ i \in pending
       /\ sent[i].op = "toggle_comment_like"
       /\ pending' = pending \ {i}
       /\ comment_likes' = r.likes
       /\ comments' = r.comments
       /\ ret' = [op |-> "toggle_comment_like", status |-> r.status,
                  error |-> r.error, comment_id |-> sent[i].comment_id,
                  user_identifier |-> sent[i].user_identifier,
                  action |-> r.action, likes_count |-> r.likes_count,
                  user_liked |-> r.user_liked]
       /\ IF r.status = "ok"
          THEN /\ item' = [item EXCEPT !.userLiked = (r.action = "liked"),
                                       !.likesCount = r.likes_count]
               /\ localStorage' = [localStorage EXCEPT !.liked_comments =
                      liked_after(@, sent[i].comment_id, r.action = "liked")]
          ELSE UNCHANGED <<item, localStorage>>
       /\ UNCHANGED <<series, episodes, now, procs, page, form, sent, list, feed>>

NextClient ==
    \/ \E c \in FormContents : TypeInto("content", c)
    \/ \E a \in FormNames : TypeInto("authorName", a)
    \/ \E e \in FormEmails : TypeInto("authorEmail", e)
    \/ Submit
    \/ \E i \in 1..MaxSent, reached \in BOOLEAN : CreateReturns(i, reached)
    \/ LikeClick
    \/ \E i \in 1..MaxSent, reached \in BOOLEAN : ToggleReturns(i, reached)

----------------------------------------------------------------------------
(* components/comments/CommentsList.tsx: the list of the comments of series *)
(* s1 (no episodeId).  useQuery keeps the last result of each query key     *)
(* ["comments", seriesId, episodeId, page]; a result equal to the one kept  *)
(* is the one kept (structural sharing), so the effect on [comments, page]  *)
(* runs when the page or the result of the page has changed.  The effects   *)
(* are run with the render of the change that causes them.                 *)

(* The pages the list is turned to, and the comments it shows, in one run. *)
MaxListPage == 1
MaxShown == 3

(* const COMMENTS_PER_PAGE = 10, scaled to the comments of the model. *)
COMMENTS_PER_PAGE == 1

ListPages == 0..MaxListPage

(* data: undefined, or the rows of a result; count: undefined *)
NoData == [defined |-> FALSE, rows |-> <<>>]
Data(rows) == [defined |-> TRUE, rows |-> rows]
NoCount == -1

ListSeries == "s1"
ListEpisode == NULL

(* Before the component is mounted. *)
ListClosed ==
    [phase |-> "closed", page |-> 0, allComments |-> <<>>,
     data |-> [p \in ListPages |-> NoData],
     fetching |-> [p \in ListPages |-> FALSE],
     totalCount |-> NoCount, counting |-> FALSE]

(* supabase.from("comments").select("*", { count: "exact", head: true })
     .eq("series_id", seriesId).is("parent_id", null)
     .eq("episode_id", episodeId) or .is("episode_id", null) *)
comments_count(sid, eid) ==
    Cardinality({i \in 1..Len(comments) :
        /\ comments[i].series_id = sid
        /\ comments[i].parent_id = NULLCID
        /\ comments[i].episode_id = eid})

(* filter: series_id=eq.<seriesId> and episode_id=eq.<episodeId> or is.null *)
feed_filter(row, sid, eid) == row.series_id = sid /\ row.episode_id = eid

(* const { data: comments } = useQuery(...): the result kept for the page. *)
list_comments(l) == l.data[l.page]

(* isLoading: the query of the page has no result yet and is fetching. *)
isLoading(l) == list_comments(l) = NoData /\ l.fetching[l.page]

(* const hasMore = totalCount ? allComments.length < totalCount : false *)
hasMore(l) ==
    IF l.totalCount # NoCount /\ l.totalCount # 0
    THEN Len(l.allComments) < l.totalCount ELSE FALSE

(* The "Load more comments" button is rendered, and not disabled. *)
load_more_offered(l) ==
    /\ l.phase = "open"
    /\ ~(isLoading(l) /\ l.page = 0)
    /\ Len(l.allComments) > 0
    /\ hasMore(l)
    /\ ~isLoading(l)

(* useEffect(() => { if (comments) { if (page === 0) setAllComments(comments)
   else setAllComments(prev => [...prev, ...comments]) } }, [comments, page]),
   run after the change from l to m. *)
update_allComments(l, m) ==
    IF list_comments(m) = list_comments(l) /\ m.page = l.page THEN m
    ELSE IF list_comments(m) = NoData THEN m
    ELSE IF m.page = 0 THEN [m EXCEPT !.allComments = list_comments(m).rows]
    ELSE [m EXCEPT !.allComments = @ \o list_comments(m).rows]

(* refetch(): the query of the page the component was rendered with is
   fetched; a fetch of it under way is dropped for the new one. *)
refetch(l) == [l EXCEPT !.fetching[l.page] = TRUE]

(* setPage(p): the component is rendered with the query of page p, which is
   fetched, its kept result being stale at once (staleTime 0). *)
setPage(l, p) ==
    IF p = l.page THEN l ELSE [l EXCEPT !.page = p, !.fetching[p] = TRUE]

(* The list changes from list to m, and its effect runs; the list shows at
   most MaxShown comments. *)
ListBecomes(m) ==
    /\ Len(update_allComments(list, m).allComments) <= MaxShown
    /\ list' = update_allComments(list, m)

(* The component is mounted: both queries are fetched. *)
ListMount ==
    /\ list.phase = "closed"
    /\ ListBecomes([list EXCEPT !.phase = "open", !.fetching[0] = TRUE,
                                !.counting = TRUE])
    /\ UNCHANGED <<series, episodes, comments, comment_likes, now, ret, procs,
                   page, form, item, localStorage, sent, pending, feed>>

(* The store answers get_comments_with_stats(seriesId, episodeId || null,
   COMMENTS_PER_PAGE, page * COMMENTS_PER_PAGE) for page p. *)
FetchReturns(p) ==
    /\ list.phase = "open"
    /\ list.fetching[p]
    /\ \E rows \in get_comments_with_stats(ListSeries, ListEpisode,
                       COMMENTS_PER_PAGE, p * COMMENTS_PER_PAGE) :
          ListBecomes([list EXCEPT !.data[p] = Data(rows), !.fetching[p] = FALSE])
    /\ UNCHANGED <<series, episodes, comments, comment_likes, now, ret, procs,
                   page, form, item, localStorage, sent, pending, feed>>

(* if (error) throw error: the query keeps the result it had. *)
FetchFails(p) ==
    /\ list.phase = "open"
    /\ list.fetching[p]
    /\ ListBecomes([list EXCEPT !.fetching[p] = FALSE])
    /\ UNCHANGED <<series, episodes, comments, comment_likes, now, ret, procs,
                   page, form, item, localStorage, sent, pending, feed>>

(* The store answers the count query. *)
CountReturns ==
    /\ list.phase = "open"
    /\ list.counting
    /\ ListBecomes([list EXCEPT !.counting = FALSE,
                       !.totalCount = comments_count(ListSeries, ListEpisode)])
    /\ UNCHANGED <<series, episodes, comments, comment_likes, now, ret, procs,
                   page, form, item, localStorage, sent, pending, feed>>

(* const loadMore = () => { setPage(prev => prev + 1) }, by its button. *)
loadMore ==
    /\ load_more_offered(list)
    /\ list.page < MaxListPage
    /\ ListBecomes(setPage(list, list.page + 1))
    /\ UNCHANGED <<series, episodes, comments, comment_likes, now, ret, procs,
                   page, form, item, localStorage, sent, pending, feed>>

(* The change of a row of comments is published to the subscribers whose
   filter the row passes. *)
publish(row) ==
    IF feed_filter(row, ListSeries, ListEpisode) THEN feed \cup {row.id} ELSE feed

(* const handleCommentAdded = () => { setPage(0); refetch() } *)
handleCommentAdded(l) == setPage(refetch(l), 0)

(* The form of the list has created a comment: onCommentAdded is called.
   The form is given the episodeId of the list.  Time passes between two
   comments: no two comments of the list have the same created_at. *)
CommentAdded(p) ==
    LET r == create_comment(p)
    IN /\ list.phase = "open"
       /\ Len(comments) < MaxListed
       /\ r.status = "ok"
       /\ comments' = r.comments
       /\ now' = now + 1
       /\ feed' = publish(r.row)
       /\ ListBecomes(handleCommentAdded(list))
       /\ UNCHANGED <<series, episodes, comment_likes, ret, procs,
                      page, form, item, localStorage, sent, pending>>

(* Another visitor creates a comment. *)
VisitorComments(p) ==
    LET r == create_comment(p)
    IN /\ Len(comments) < MaxListed
       /\ r.status = "ok"
       /\ comments' = r.comments
       /\ now' = now + 1
       /\ feed' = publish(r.row)
       /\ UNCHANGED <<series, episodes, comment_likes, ret, procs,
                      page, form, item, localStorage, sent, pending, list>>

(* Another visitor likes or unlikes a comment (the oldest one, in this model):
   its likes_count is updated. *)
VisitorLikes(cid) ==
    LET r == toggle_comment_like(cid, User1)
    IN /\ r.status = "ok"
       /\ comment_likes' = r.likes
       /\ comments' = r.comments
       /\ feed' = publish(comment(cid))
       /\ UNCHANGED <<series, episodes, now, ret, procs,
                      page, form, item, localStorage, sent, pending, list>>

(* A callback that takes the changed row from the event and shows it. *)
on_postgres_changes_showing_payload(l, payload) ==
    [refetch(l) EXCEPT !.allComments = Append(@, stats_row(comment(payload)))]

(* The callback of .on("postgres_changes", ...): () => { refetch() }.  The
   payload of the event is not a parameter of the callback. *)
on_postgres_changes(l, payload) == refetch(l)

(* An event of the change feed arrives. *)
FeedEvent(e) ==
    /\ list.phase = "open"
    /\ e \in feed
    /\ feed' = feed \ {e}
    /\ ListBecomes(on_postgres_changes(list, e))
    /\ UNCHANGED <<series, episodes, comments, comment_likes, now, ret, procs,
                   page, form, item, localStorage, sent, pending>>

NextList ==
    \/ ListMount
    \/ \E p \in ListPages : FetchReturns(p)
    \/ \E p \in ListPages : FetchFails(p)
    \/ CountReturns
    \/ loadMore
    \/ CommentAdded(CallArgs(BaseText, ListSeries, ListEpisode, NULLCID))
    \/ \E e \in {NULL, "e1"} :
          VisitorComments(CallArgs(BaseText, ListSeries, e, NULLCID))
    \/ VisitorLikes(IF comments = <<>> THEN NULLCID ELSE Head(comments).id)
    \/ \E e \in 1..MaxListed : FeedEvent(e)

----------------------------------------------------------------------------
(* The store, one call at a time. *)

(* The browser before any page is opened. *)
ClientInit ==
    /\ page = PageClosed
    /\ form = FormEmpty
    /\ item = NoItem
    /\ localStorage = StorageEmpty
    /\ sent = <<>>
    /\ pending = {}
    /\ list = ListClosed
    /\ feed = {}

NoProcs == <<>>

Init ==
    /\ series = SeriesRows
    /\ episodes = EpisodeRows
    /\ comments = <<>>
    /\ comment_likes = EmptyBag
    /\ now = 0
    /\ ret = [op |-> "none"]
    /\ procs = NoProcs
    /\ ClientInit

CreateComment(p) ==
    LET r == create_comment(p)
    IN /\ r.status = "ok" => Len(comments) < MaxComments
       /\ comments' = r.comments
       /\ ret' = [op |-> "create_comment", status |-> r.status,
                  error |-> r.error, row |-> r.row]
       /\ UNCHANGED <<series, episodes, comment_likes, now, procs, client>>

ToggleCommentLike(cid, uid) ==
    LET r == toggle_comment_like(cid, uid)
    IN /\ comment_likes' = r.likes
       /\ comments' = r.comments
       /\ ret' = [op |-> "toggle_comment_like", status |-> r.status,
                  error |-> r.error, comment_id |-> cid, user_identifier |-> uid,
                  action |-> r.action, likes_count |-> r.likes_count,
                  user_liked |-> r.user_liked]
       /\ UNCHANGED <<series, episodes, now, procs, client>>

GetCommentsWithStats(sid, eid, lim, off) ==
    /\ \E rows \in get_comments_with_stats(sid, eid, lim, off) :
          ret' = [op |-> "get_comments_with_stats", status |-> "ok", rows |-> rows]
    /\ UNCHANGED <<series, episodes, comments, comment_likes, now, procs, client>>

(* Time passes between calls. *)
Tick ==
    /\ now < MaxTime
    /\ now' = now + 1
    /\ UNCHANGED <<series, episodes, comments, comment_likes, ret, procs, client>>

Create == \E p \in CreateArgs : CreateComment(p)

CreateListed ==
    /\ Len(comments) < MaxListed
    /\ \E p \in PlainArgs : CreateComment(p)

Toggle == \E cid \in ToggleCids, uid \in UserArgs : ToggleCommentLike(cid, uid)

Query ==
    \E sid \in SeriesArgs, eid \in EpisodeArgs, lim \in 0..MaxPage, off \in 0..MaxPage :
        GetCommentsWithStats(sid, eid, lim, off)

(* Sequences of create_comment calls. *)
NextCreate == Create

SpecCreate == Init /\ [][NextCreate]_vars

(* Comments are created and read. *)
NextQuery == CreateListed \/ Query \/ Tick

SpecQuery == Init /\ [][NextQuery]_vars

(* Comments are created and liked, one call at a time. *)
LikedArgs ==
    {CallArgs(BaseText, s, NULL, q) : s \in SeriesIds, q \in 0..MaxLiked}

CreateLiked ==
    /\ Len(comments) < MaxLiked
    /\ \E p \in LikedArgs : CreateComment(p)

NextLikes == CreateLiked \/ Toggle

SpecLikes == Init /\ [][NextLikes]_vars

(* The status of series is set, as time passes. *)
AdminUpdateSeriesStatus(admin_code, sid, status) ==
    LET r == admin_update_series_status(admin_code, sid, status)
    IN /\ series' = r.series
       /\ ret' = [op |-> "admin_update_series_status", status |-> r.status,
                  error |-> r.error, admin_code |-> admin_code,
                  series_id |-> sid, new_status |-> status]
       /\ UNCHANGED <<episodes, comments, comment_likes, now, procs, client>>

Admin ==
    \E admin_code \in CodeArgs, sid \in SeriesArgs, status \in StatusArgs :
        AdminUpdateSeriesStatus(admin_code, sid, status)

NextAdmin == Admin \/ Tick

SpecAdmin == Init /\ [][NextAdmin]_vars

(* One load of the SeriesDetail page. *)
SpecViews == Init /\ [][NextViews]_vars

(* The SeriesDetail page and the message events of its window. *)
SpecPlayer == Init /\ [][NextPlayer]_vars

(* The comment form of series s1 and the heart of comment 1, which is there
   and shown when the page is opened; the store answers one call at a time. *)
FirstComment ==
    [id |-> 1, content |-> Str_hi, author_name |-> Str_Al,
     author_email |-> NULLTEXT, series_id |-> "s1",
     episode_id |-> NULL, parent_id |-> NULLCID,
     likes_count |-> 0, created_at |-> 0, updated_at |-> 0]

InitClient ==
    /\ series = SeriesRows
    /\ episodes = EpisodeRows
    /\ comments = <<FirstComment>>
    /\ comment_likes = EmptyBag
    /\ now = 0
    /\ ret = [op |-> "none"]
    /\ procs = NoProcs
    /\ page = PageClosed
    /\ form = FormEmpty
    /\ localStorage = StorageEmpty
    /\ item = ItemShown(FirstComment)
    /\ sent = <<>>
    /\ pending = {}
    /\ list = ListClosed
    /\ feed = {}

SpecClient == InitClient /\ [][NextClient]_vars

(* The same, where every create_comment call of the form completes: the
   promise of supabase.rpc settles, with a result or with an error, and the
   rest of handleSubmit runs. *)
SpecClientFair ==
    /\ InitClient
    /\ [][NextClient]_vars
    /\ WF_vars(\E i \in 1..MaxSent, reached \in BOOLEAN : CreateReturns(i, reached))

(* The list of comments of series s1, with the store and its change feed. *)
SpecList == Init /\ [][NextList]_vars

----------------------------------------------------------------------------
(* Concurrent toggle_comment_like calls.  Each call is one READ COMMITTED   *)
(* transaction: its statements run one at a time, each sees what has been  *)
(* committed, its own writes become visible to the others when it commits, *)
(* and a statement that needs a row another transaction has written waits  *)
(* for that transaction to end.                                            *)

ProcIds == {"p1", "p2"}
RaceCids == {1, 2}
RaceUsers == {User1, User2}

Idle(n) ==
    [pc |-> "idle", comment_id |-> NULLCID, user_identifier |-> NULLTEXT,
     like_exists |-> FALSE, stmt |-> "none", new_likes_count |-> 0, calls |-> n]

(* One comment is there; the comment id 2 names no row. *)
InitRace ==
    /\ series = SeriesRows
    /\ episodes = EpisodeRows
    /\ comments = <<[id |-> 1, content |-> Str_hi, author_name |-> Str_Al,
                     author_email |-> NULLTEXT, series_id |-> "s1",
                     episode_id |-> NULL, parent_id |-> NULLCID,
                     likes_count |-> 0, created_at |-> 0, updated_at |-> 0]>>
    /\ comment_likes = EmptyBag
    /\ now = 0
    /\ ret = [op |-> "none"]
    /\ procs = [p \in ProcIds |-> Idle(0)]
    /\ ClientInit

(* The transaction of q has written the like row (cid, uid) and not ended. *)
holds_like(q, cid, uid) ==
    /\ procs[q].pc \in {"written", "updated"}
    /\ procs[q].stmt \in {"insert", "delete"}
    /\ procs[q].comment_id = cid /\ procs[q].user_identifier = uid

(* The transaction of q has updated the comments row cid and not ended. *)
holds_comment(q, cid) ==
    procs[q].pc = "updated" /\ procs[q].comment_id = cid

RaceError(p, msg) ==
    /\ procs' = [procs EXCEPT ![p].pc = "failed", ![p].stmt = "none"]
    /\ ret' = [op |-> "toggle_comment_like", status |-> "error", error |-> msg,
               comment_id |-> procs[p].comment_id,
               user_identifier |-> procs[p].user_identifier,
               action |-> "", likes_count |-> NULL, user_liked |-> FALSE]

(* The call starts: the parameters are validated and SELECT EXISTS(...) INTO
   like_exists reads the committed rows. *)
Call(p, cid, uid) ==
    /\ procs[p].pc \in {"idle", "done", "failed"}
    /\ procs[p].calls < MaxCalls
    /\ ~invalid_toggle_parameters(cid, uid)
    /\ procs' = [procs EXCEPT ![p] =
           [pc |-> "checked", comment_id |-> cid, user_identifier |-> uid,
            like_exists |-> like_exists(comment_likes, cid, uid),
            stmt |-> "none", new_likes_count |-> 0, calls |-> @.calls + 1]]
    /\ UNCHANGED <<series, episodes, comments, comment_likes, now, ret, client>>

(* IF like_exists THEN DELETE ... : the row is deleted when it is still there,
   after the transaction that is deleting it, if any, has ended; a row another
   transaction has inserted and not committed is not seen. *)
DeleteLike(p) ==
    LET cid == procs[p].comment_id
        uid == procs[p].user_identifier
    IN /\ procs[p].pc = "checked" /\ procs[p].like_exists
       /\ \A q \in ProcIds \ {p} :
             ~(holds_like(q, cid, uid) /\ procs[q].stmt = "delete")
       /\ procs' = [procs EXCEPT ![p].pc = "written",
              ![p].stmt = IF like_exists(comment_likes, cid, uid)
                          THEN "delete" ELSE "none"]
       /\ UNCHANGED <<series, episodes, comments, comment_likes, now, ret, client>>

(* ELSE INSERT ... : the constraints are checked after the transaction that has
   written the same pair, if any, has ended; a violation ends the call. *)
InsertLike(p) ==
    LET cid == procs[p].comment_id
        uid == procs[p].user_identifier
        ins == insert_like(comment_likes, comments, cid, uid)
    IN /\ procs[p].pc = "checked" /\ ~procs[p].like_exists
       /\ \A q \in ProcIds \ {p} : ~holds_like(q, cid, uid)
       /\ IF ins.status = "error"
          THEN RaceError(p, ins.error)
          ELSE /\ procs' = [procs EXCEPT ![p].pc = "written", ![p].stmt = "insert"]
               /\ ret' = ret
       /\ UNCHANGED <<series, episodes, comments, comment_likes, now, client>>

(* UPDATE comments SET likes_count = likes_count +/- 1 ... RETURNING likes_count:
   the row is read as committed, after the transaction that is updating it, if
   any, has ended. *)
UpdateCount(p) ==
    LET cid == procs[p].comment_id
        delta == IF procs[p].like_exists THEN -1 ELSE 1
    IN /\ procs[p].pc = "written"
       /\ \A q \in ProcIds \ {p} : ~holds_comment(q, cid)
       /\ procs' = [procs EXCEPT ![p].pc = "updated",
              ![p].new_likes_count =
                  returned_likes_count(update_likes_count(comments, cid, delta), cid)]
       /\ UNCHANGED <<series, episodes, comments, comment_likes, now, ret, client>>

(* RETURN json_build_object(...), and the transaction commits. *)
Commit(p) ==
    LET cid == procs[p].comment_id
        uid == procs[p].user_identifier
        delta == IF procs[p].like_exists THEN -1 ELSE 1
    IN /\ procs[p].pc = "updated"
       /\ comment_likes' =
              IF procs[p].stmt = "insert"
              THEN insert_like(comment_likes, comments, cid, uid).likes
              ELSE IF procs[p].stmt = "delete"
              THEN delete_like(comment_likes, cid, uid)
              ELSE comment_likes
       /\ comments' = update_likes_count(comments, cid, delta)
       /\ procs' = [procs EXCEPT ![p].pc = "done", ![p].stmt = "none"]
       /\ ret' = [op |-> "toggle_comment_like", status |-> "ok", error |-> "",
                  comment_id |-> cid, user_identifier |-> uid,
                  action |-> IF procs[p].like_exists THEN "unliked" ELSE "liked",
                  likes_count |-> procs[p].new_likes_count,
                  user_liked |-> ~procs[p].like_exists]
       /\ UNCHANGED <<series, episodes, now, client>>

NextRace ==
    \/ \E p \in ProcIds, cid \in RaceCids, uid \in RaceUsers : Call(p, cid, uid)
    \/ \E p \in ProcIds : DeleteLike(p)
    \/ \E p \in ProcIds : InsertLike(p)
    \/ \E p \in ProcIds : UpdateCount(p)
    \/ \E p \in ProcIds : Commit(p)

SpecRace == InitRace /\ [][NextRace]_vars

----------------------------------------------------------------------------
(* What the claims speak of. *)

Users == {User1, User2}

(* The step is a toggle_comment_like(cid, uid) call that returns. *)
ToggleStep(cid, uid) ==
    /\ ret' # ret
    /\ ret'.op = "toggle_comment_like"
    /\ ret'.comment_id = cid /\ ret'.user_identifier = uid

(* likes_count of comment cid less the number of its comment_likes rows. *)
Drift(cid) == comment(cid).likes_count - like_rows(comment_likes, cid)

(* C1: from a state where u has no like on C, toggle_comment_like(C, u) returns
   user_liked = true and a likes_count one higher than before, and leaves the
   like row; a second toggle_comment_like(C, u) right after it returns
   user_liked = false and the original likes_count, and leaves no like row. *)
C1_ToggleTwice ==
    [][\A cid \in CommentIds, uid \in Users :
         ToggleStep(cid, uid) =>
            /\ ~like_exists(comment_likes, cid, uid) =>
                  /\ ret'.status = "ok" /\ ret'.user_liked = TRUE
                  /\ ret'.action = "liked"
                  /\ ret'.likes_count = comment(cid).likes_count + 1
                  /\ comment(cid)'.likes_count = comment(cid).likes_count + 1
                  /\ like_exists(comment_likes', cid, uid)
            /\ ( /\ ret.op = "toggle_comment_like" /\ ret.status = "ok"
                 /\ ret.comment_id = cid /\ ret.user_identifier = uid
                 /\ ret.user_liked = TRUE ) =>
                  /\ ret'.status = "ok" /\ ret'.user_liked = FALSE
                  /\ ret'.action = "unliked"
                  /\ ret'.likes_count = ret.likes_count - 1
                  /\ comment(cid)'.likes_count = ret.likes_count - 1
                  /\ ~like_exists(comment_likes', cid, uid)]_vars

(* u1 has liked and unliked comment 1 while the like of u2 stays. *)
W1_ToggledBack ==
    /\ ret.op = "toggle_comment_like" /\ ret.status = "ok"
    /\ ret.comment_id = 1 /\ ret.user_identifier = User1
    /\ ret.user_liked = FALSE /\ ret.likes_count = 1
    /\ ~like_exists(comment_likes, 1, User1)
    /\ like_exists(comment_likes, 1, User2)

(* C2: concurrent toggles of one identifier on one comment leave likes_count
   different from the number of like rows.  The counter leaves the number of
   rows in one way only: a call that saw the like, and finds the row deleted by
   another call when it comes to delete it, still decrements. *)
C2_DriftByStaleUnlike ==
    [][\A cid \in CommentIds :
         Drift(cid)' # Drift(cid) =>
            /\ Drift(cid)' = Drift(cid) - 1
            /\ \E p \in ProcIds :
                  /\ procs[p].pc = "updated" /\ procs'[p].pc = "done"
                  /\ procs[p].comment_id = cid
                  /\ procs[p].like_exists /\ procs[p].stmt = "none"
                  /\ ret'.action = "unliked"]_vars

(* Both calls have unliked (1, u1) and returned; no row is left and the count is -1. *)
W2_IncorrectCounter ==
    /\ \A p \in ProcIds :
          /\ procs[p].pc = "done" /\ procs[p].like_exists
          /\ procs[p].comment_id = 1 /\ procs[p].user_identifier = User1
    /\ comment(1).likes_count # like_rows(comment_likes, 1)
    /\ comment(1).likes_count = -1

(* C3: no (comment_id, user_identifier) pair has two comment_likes rows, and a
   call whose INSERT meets the row of its pair fails and inserts nothing. *)
C3_OneRowPerPair ==
    /\ [](\A k \in DOMAIN comment_likes : CopiesIn(k, comment_likes) <= 1)
    /\ [][\A p \in ProcIds :
            ( /\ procs[p].pc = "checked" /\ ~procs[p].like_exists
              /\ procs'[p].pc # "checked"
              /\ like_exists(comment_likes, procs[p].comment_id,
                             procs[p].user_identifier) ) =>
               /\ procs'[p].pc = "failed"
               /\ ret'.status = "error" /\ ret'.error = "unique_violation"
               /\ comment_likes' = comment_likes /\ comments' = comments]_vars

(* A call that saw no like has met the row another call inserted meanwhile. *)
W3_SecondInsertFailed ==
    /\ \E p \in ProcIds :
          /\ procs[p].pc = "failed" /\ ~procs[p].like_exists
          /\ like_exists(comment_likes, procs[p].comment_id, procs[p].user_identifier)
    /\ ret.op = "toggle_comment_like" /\ ret.error = "unique_violation"

(* A text of spaces only (the empty text too). *)
Blank(t) == \A i \in 1..Len(t) : t[i][1] = " "

Rows == {comments[i] : i \in 1..Len(comments)}

(* The call is one the claims say must fail on a reference or a required field. *)
BadCall(p) ==
    \/ p.content = NULLTEXT \/ Blank(p.content)
    \/ p.author_name = NULLTEXT \/ Blank(p.author_name)
    \/ p.series_id \notin DOMAIN series
    \/ /\ p.episode_id # NULL
       /\ ~(p.episode_id \in DOMAIN episodes
              /\ episodes[p.episode_id].series_id = p.series_id)
    \/ /\ p.parent_id # NULLCID
       /\ ~\E c \in Rows : c.id = p.parent_id /\ c.series_id = p.series_id

(* The step is a create_comment call that fails. *)
CreateFails ==
    ret' # ret /\ ret'.op = "create_comment" /\ ret'.status = "error"

(* C4: create_comment fails and leaves comments unchanged when content or
   author name is null or blank, the series does not exist, the episode is not
   one of that series, or the parent is not a comment of that series. *)
C4_CreateRejects ==
    /\ [](\A p \in CreateArgs :
            BadCall(p) => /\ create_comment(p).status = "error"
                          /\ create_comment(p).comments = comments)
    /\ [][CreateFails => comments' = comments]_vars

(* A reply to a comment of another series has been refused. *)
W4_ForeignParentRefused ==
    /\ ret.op = "create_comment" /\ ret.status = "error"
    /\ ret.error = "Parent comment not found or does not belong to the specified series"
    /\ Len(comments) = 1 /\ comments[1].series_id = "s2"
    /\ BadCall(CallArgs(BaseText, "s1", NULL, 1))

(* Content and author name are there, not blank and within their limits once
   trimmed, and the series exists. *)
ValidRequired(p) ==
    /\ p.content # NULLTEXT /\ ~Blank(p.content)
    /\ length(trim(p.content)) <= MaxContentLen
    /\ p.author_name # NULLTEXT /\ ~Blank(p.author_name)
    /\ length(trim(p.author_name)) <= MaxNameLen
    /\ p.series_id \in DOMAIN series

NoEmail(e) == e = NULLTEXT \/ Blank(e)

(* The call returns the row it stored, trimmed, with the ids as given. *)
ReturnsStoredRow(p) ==
    LET r == create_comment(p)
    IN /\ r.status = "ok"
       /\ r.comments = Append(comments, r.row)
       /\ r.row.content = trim(p.content)
       /\ r.row.author_name = trim(p.author_name)
       /\ r.row.author_email = IF NoEmail(p.author_email) THEN NULLTEXT
                                ELSE trim(p.author_email)
       /\ r.row.series_id = p.series_id
       /\ r.row.episode_id = p.episode_id
       /\ r.row.parent_id = p.parent_id

(* The row a successful call has returned is the last row of comments. *)
ReturnedIsStored ==
    (ret.op = "create_comment" /\ ret.status = "ok") =>
        /\ Len(comments) > 0
        /\ ret.row = comments[Len(comments)]

(* C5, as stated: every call with valid content, author name and series
   succeeds and returns the row it stored. *)
X5_ValidRequiredSucceeds ==
    /\ \A p \in CreateArgs : ValidRequired(p) => ReturnsStoredRow(p)
    /\ ReturnedIsStored

(* C5, amended: ... when moreover the email is null, blank or well-formed once
   trimmed and the episode and parent ids are null or name an episode and a
   comment of the series. *)
C5_ValidCallReturnsRow ==
    /\ \A p \in CreateArgs :
          ( /\ ValidRequired(p)
            /\ (NoEmail(p.author_email) \/ email_matches(trim(p.author_email)))
            /\ ~BadCall(p) ) => ReturnsStoredRow(p)
    /\ ReturnedIsStored

(* A padded call with an email has stored and returned the trimmed fields. *)
W5_TrimmedRowReturned ==
    /\ ret.op = "create_comment" /\ ret.status = "ok"
    /\ ret.row = comments[Len(comments)]
    /\ ret.row.content = trim(Pad(Long(MaxContentLen)))
    /\ ret.row.author_email = Str_email
    /\ \E c \in Rows : c.author_email = NULLTEXT /\ c.content = Str_hi

(* The step is a create_comment call that succeeds. *)
CreateSucceeds ==
    ret' # ret /\ ret'.op = "create_comment" /\ ret'.status = "ok"

(* C6: a successful create_comment adds one row to comments and changes no
   other comment, no like row, no series and no episode. *)
C6_CreateFrame ==
    [][CreateSucceeds =>
          /\ Len(comments') = Len(comments) + 1
          /\ SubSeq(comments', 1, Len(comments)) = comments
          /\ comment_likes' = comment_likes
          /\ series' = series
          /\ episodes' = episodes]_vars

(* A reply has been added under a comment that has a like. *)
W6_ReplyUnderLiked ==
    /\ ret.op = "create_comment" /\ ret.status = "ok"
    /\ ret.row.parent_id # NULLCID
    /\ comment(ret.row.parent_id).likes_count = 1
    /\ like_rows(comment_likes, ret.row.parent_id) = 1

(* C7: the episode of a comment is an episode of the comment's series, and the
   parent of a comment is a comment of the same series. *)
C7_SameSeries ==
    \A c \in Rows :
        /\ c.episode_id # NULL =>
              /\ c.episode_id \in DOMAIN episodes
              /\ episodes[c.episode_id].series_id = c.series_id
        /\ c.parent_id # NULLCID =>
              \E q \in Rows : q.id = c.parent_id /\ q.series_id = c.series_id

(* A comment on an episode has a reply, and the other series has a comment. *)
W7_EpisodeAndReply ==
    /\ \E c, d \in Rows :
          /\ c.episode_id = "e1" /\ d.parent_id = c.id
    /\ \E c \in Rows : c.series_id = "s2"

(* C8: the parent of every reply is a top-level comment. *)
X8_TwoLevels ==
    \A c \in Rows :
        c.parent_id # NULLCID =>
            \E q \in Rows : q.id = c.parent_id /\ q.parent_id = NULLCID

(* C9: every stored comment has content that is not blank and of at most 2000
   characters, an author name that is not blank and of at most 100, and an
   email that is null or well-formed; a call whose trimmed content or name is
   longer, or whose email is not blank and malformed, fails and stores nothing. *)
C9_FieldLimits ==
    /\ \A c \in Rows :
          /\ ~Blank(c.content) /\ length(c.content) <= MaxContentLen
          /\ ~Blank(c.author_name) /\ length(c.author_name) <= MaxNameLen
          /\ c.author_email = NULLTEXT \/ email_matches(c.author_email)
    /\ \A p \in CreateArgs :
          ( \/ p.content # NULLTEXT /\ length(trim(p.content)) > MaxContentLen
            \/ p.author_name # NULLTEXT /\ length(trim(p.author_name)) > MaxNameLen
            \/ /\ ~NoEmail(p.author_email)
               /\ ~email_matches(trim(p.author_email)) ) =>
             /\ create_comment(p).status = "error"
             /\ create_comment(p).comments = comments

(* The table's checks have refused a call, and rows at the limits are stored. *)
W9_CheckRefused ==
    /\ ret.op = "create_comment" /\ ret.error = "check_violation"
    /\ \E c \in Rows :
          /\ length(c.content) = MaxContentLen
          /\ length(c.author_name) = MaxNameLen
          /\ c.author_email # NULLTEXT

(* C10: get_comments_with_stats returns only top-level comments of the series
   asked for, each with the number of comments whose parent it is. *)
C10_StatsRows ==
    \A sid \in SeriesArgs, eid \in EpisodeArgs, lim \in 0..MaxPage, off \in 0..MaxPage :
        \A rows \in get_comments_with_stats(sid, eid, lim, off) :
            \A i \in 1..Len(rows) :
                /\ rows[i].parent_id = NULLCID
                /\ rows[i].series_id = sid
                /\ rows[i].reply_count =
                      Cardinality({c \in Rows : c.parent_id = rows[i].id})
                /\ \E c \in Rows : c.id = rows[i].id /\ c.parent_id = NULLCID

(* A query has returned a comment with its reply counted, and not the reply. *)
W10_RowWithReply ==
    /\ ret.op = "get_comments_with_stats"
    /\ Len(ret.rows) = 1
    /\ ret.rows[1].reply_count = 1
    /\ \E c \in Rows : c.parent_id = ret.rows[1].id /\ c.series_id = ret.rows[1].series_id

(* The top-level comments of series sid, of episode eid when one is given. *)
Matching(sid, eid) ==
    {c \in Rows : /\ c.series_id = sid /\ c.parent_id = NULLCID
                  /\ (eid = NULL \/ c.episode_id = eid)}

(* The sequences of all the comments of S, newest first. *)
NewestFirst(S) ==
    {s \in [1..Cardinality(S) -> S] :
        /\ \A i, j \in 1..Cardinality(S) : i # j => s[i] # s[j]
        /\ \A i, j \in 1..Cardinality(S) : i < j => s[i].created_at >= s[j].created_at}

(* The number of elements of a sequence of n at positions off+1 .. off+lim. *)
PageLen(n, lim, off) ==
    IF n <= off THEN 0 ELSE IF n - off < lim THEN n - off ELSE lim

(* C11: get_comments_with_stats(series, episode, limit, offset) returns the
   elements at positions [offset, offset+limit) of the series' top-level
   comments sorted by created_at descending: all of them when episode is null,
   those of the episode otherwise. *)
C11_PageOfNewestFirst ==
    \A sid \in SeriesArgs, eid \in EpisodeArgs, lim \in 0..MaxPage, off \in 0..MaxPage :
        \A rows \in get_comments_with_stats(sid, eid, lim, off) :
            \E s \in NewestFirst(Matching(sid, eid)) :
                /\ Len(rows) = PageLen(Len(s), lim, off)
                /\ \A i \in 1..Len(rows) :
                      /\ rows[i].id = s[off + i].id
                      /\ rows[i].content = s[off + i].content
                      /\ rows[i].episode_id = s[off + i].episode_id
                      /\ rows[i].created_at = s[off + i].created_at

(* A query with no episode and offset 1 has returned the older of two comments
   of the series; the newer one, left out, is attached to an episode. *)
W11_SecondOfTwo ==
    /\ ret.op = "get_comments_with_stats"
    /\ Len(ret.rows) = 1
    /\ ret.rows[1].episode_id = NULL /\ ret.rows[1].created_at = 0
    /\ \E c \in Rows :
          /\ c.series_id = ret.rows[1].series_id /\ c.parent_id = NULLCID
          /\ c.episode_id = "e1" /\ c.created_at = 1
    /\ Len(comments) = 2

(* C12: identical get_comments_with_stats calls on unchanged data return the
   same rows in the same order: the arguments and the data leave one result. *)
X12_OneResult ==
    \A sid \in SeriesArgs, eid \in EpisodeArgs, lim \in 0..MaxPage, off \in 0..MaxPage :
        Cardinality(get_comments_with_stats(sid, eid, lim, off)) = 1

(* The step is an admin_update_series_status call that returns. *)
AdminStep == ret' # ret /\ ret'.op = "admin_update_series_status"

(* C13: admin_update_series_status fails and leaves every series unchanged when
   the code is not the expected one or the series does not exist; with the
   code and an existing series it sets that series' status and updated_at and
   changes no other series. *)
X13_AdminGuarded ==
    [][(AdminStep /\ ret'.new_status \in StatusValues) =>
          IF ret'.admin_code = AdminCode /\ ret'.series_id \in DOMAIN series
          THEN /\ ret'.status = "ok"
               /\ series' = [series EXCEPT ![ret'.series_id] =
                                [@ EXCEPT !.status = ret'.new_status,
                                          !.updated_at = now]]
          ELSE /\ ret'.status = "error"
               /\ series' = series]_vars

(* The step is the return of the successful call of p. *)
Returns(p) == procs[p].pc = "updated" /\ procs'[p].pc = "done"

(* The result returned names the action and the count the step leaves. *)
ResultNamesCount(p) ==
    /\ ret'.op = "toggle_comment_like" /\ ret'.status = "ok"
    /\ ret'.action \in {"liked", "unliked"}
    /\ ret'.action = "liked" <=> ret'.user_liked = TRUE
    /\ ret'.likes_count = comment(procs[p].comment_id)'.likes_count

(* The result returned tells whether the like row is there after the step. *)
ResultNamesRow(p) ==
    ret'.user_liked = TRUE <=>
        like_exists(comment_likes', procs[p].comment_id, procs[p].user_identifier)

(* C14, as stated: every successful toggle_comment_like returns the action,
   the liked state and the likes_count of the state it leaves. *)
X14_ResultIsState ==
    [][\A p \in ProcIds : Returns(p) => ResultNamesCount(p) /\ ResultNamesRow(p)]_vars

(* C14, amended: ... the action and the likes_count always; the liked state
   when the call inserted its row or deleted the row it had read, that is
   unless it is an unlike whose DELETE found the row already deleted by another
   call. *)
C14_ResultIsStateUnlessStale ==
    [][\A p \in ProcIds :
         Returns(p) =>
            /\ ResultNamesCount(p)
            /\ procs[p].stmt # "none" => ResultNamesRow(p)]_vars

(* u1 has unliked comment 1 and got the count 1, the like of u2 staying. *)
W14_UnlikedOneLeft ==
    /\ ret.op = "toggle_comment_like" /\ ret.status = "ok"
    /\ ret.action = "unliked" /\ ret.user_liked = FALSE
    /\ ret.comment_id = 1 /\ ret.user_identifier = User1
    /\ ret.likes_count = 1 /\ comment(1).likes_count = 1
    /\ ~like_exists(comment_likes, 1, User1)
    /\ like_exists(comment_likes, 1, User2)

(* C15: the comment a successful create_comment returns has likes_count 0, and
   get_comments_with_stats reports reply_count 0 for it until a reply naming it
   as parent is created. *)
C15_NewCommentHasNoLikesNoReplies ==
    /\ [](\A sid \in SeriesArgs, eid \in EpisodeArgs, lim \in 0..MaxPage, off \in 0..MaxPage :
            \A rows \in get_comments_with_stats(sid, eid, lim, off) :
                \A i \in 1..Len(rows) :
                    (~\E c \in Rows : c.parent_id = rows[i].id) => rows[i].reply_count = 0)
    /\ [][CreateSucceeds =>
            /\ ret'.row.likes_count = 0
            /\ \A cid \in 1..(MaxComments + 1) :
                  cid = ret'.row.id =>
                     /\ comment(cid)'.likes_count = 0
                     /\ reply_count(cid)' = 0]_vars
    /\ [][\A cid \in CommentIds :
            reply_count(cid)' # reply_count(cid) =>
               CreateSucceeds /\ ret'.row.parent_id = cid]_vars

(* A query made later has returned the two comments created, neither of which
   has been replied to or liked. *)
W15_NoReplyYet ==
    /\ ret.op = "get_comments_with_stats"
    /\ Len(ret.rows) = 2
    /\ ret.rows[1].created_at = 1 /\ ret.rows[2].created_at = 0
    /\ ret.rows[1].reply_count = 0 /\ ret.rows[2].reply_count = 0
    /\ ret.rows[1].likes_count = 0 /\ ret.rows[2].likes_count = 0
    /\ ~\E c \in Rows : c.parent_id # NULLCID

(* The increment_series_view calls sent by the load of the page. *)
LoadIncrements ==
    {i \in 1..Len(sent) :
        sent[i].op = "increment_series_view" /\ sent[i].by = "load"}

(* The step sends the increment_series_view of a timer tick. *)
TickSent ==
    /\ Len(sent') = Len(sent) + 1
    /\ sent'[Len(sent')].op = "increment_series_view"
    /\ sent'[Len(sent')].by = "tick"

(* One increment per load of the page of a series, and a timer only after a
   play event. *)
LoadOnceTimerByPlay ==
    /\ [](Cardinality(LoadIncrements) =
             IF page.phase # "closed" /\ page.id # NULL THEN 1 ELSE 0)
    /\ [](page.intervals > 0 => page.player # "idle")

(* C16, as stated: the page-load increment is sent exactly once, and timer
   ticks send increments only while the player is playing: none after a pause
   or ended event until the next play event. *)
X16_TicksOnlyWhilePlaying ==
    /\ LoadOnceTimerByPlay
    /\ [][TickSent => page.player = "playing"]_vars

(* C16, amended: ... timer ticks send increments only while the player is
   playing or while the render of a pause or ended event is still to be
   committed; once it is committed no interval is left, and no tick sends an
   increment until the next play event. *)
C16_TicksUntilPauseRendered ==
    /\ LoadOnceTimerByPlay
    /\ [][TickSent =>
            page.player = "playing" \/ page.isWatching # page.timer_deps]_vars
    /\ []((page.isWatching = page.timer_deps /\ page.player # "playing") =>
             page.intervals = 0)

(* After the load and two ticks the player has paused, and the render of the
   pause has cleared the interval. *)
W16_PausedAndCleared ==
    /\ Cardinality(LoadIncrements) = 1
    /\ Len(sent) = 3 /\ sent[2].by = "tick" /\ sent[3].by = "tick"
    /\ page.player = "paused" /\ ~page.isWatching /\ ~page.timer_deps
    /\ page.intervals = 0

(* C17: with toggle_comment_like calls run one at a time, the likes_count of
   every comment is the number of comment_likes rows that reference it, and
   so is never negative. *)
C17_CountIsRows ==
    \A cid \in CommentIds :
        /\ comment(cid).likes_count = like_rows(comment_likes, cid)
        /\ comment(cid).likes_count >= 0

(* Comment 1 has two likes, and the like of comment 2 has just been removed. *)
W17_TwoLikesAndNone ==
    /\ Len(comments) = 2
    /\ comment(1).likes_count = 2 /\ like_rows(comment_likes, 1) = 2
    /\ ret.op = "toggle_comment_like" /\ ret.action = "unliked"
    /\ ret.comment_id = 2
    /\ comment(2).likes_count = 0 /\ like_rows(comment_likes, 2) = 0

(* The call is one of a null comment id, of a null or blank identifier, or of
   a comment id that names no comment. *)
BadToggle(cid, uid) ==
    cid = NULLCID \/ uid = NULLTEXT \/ Blank(uid) \/ ~\E c \in Rows : c.id = cid

(* C18: toggle_comment_like fails and leaves comment_likes and every
   likes_count unchanged when the comment id is null, the identifier is null
   or blank, or the comment id references no comment. *)
C18_ToggleRejects ==
    /\ [](\A cid \in ToggleCids, uid \in UserArgs :
            BadToggle(cid, uid) =>
               /\ toggle_comment_like(cid, uid).status = "error"
               /\ toggle_comment_like(cid, uid).likes = comment_likes
               /\ toggle_comment_like(cid, uid).comments = comments)
    /\ [][\A cid \in ToggleCids, uid \in UserArgs :
            (ToggleStep(cid, uid) /\ BadToggle(cid, uid)) =>
               /\ ret'.status = "error"
               /\ comment_likes' = comment_likes
               /\ comments' = comments]_vars

(* The like of a comment that does not exist has been refused by the foreign
   key, the like of comment 1 staying. *)
W18_MissingCommentRefused ==
    /\ ret.op = "toggle_comment_like" /\ ret.status = "error"
    /\ ret.error = "foreign_key_violation"
    /\ Len(comments) = 1 /\ ret.comment_id = 2
    /\ comment(1).likes_count = 1 /\ like_rows(comment_likes, 1) = 1

(* The fields of a comment a toggle does not write. *)
NotWritten(c) ==
    [id |-> c.id, content |-> c.content, author_name |-> c.author_name,
     author_email |-> c.author_email, series_id |-> c.series_id,
     episode_id |-> c.episode_id, parent_id |-> c.parent_id,
     created_at |-> c.created_at]

(* C19: toggle_comment_like(C, u) changes only the like row of (C, u) and the
   likes_count and updated_at of C: the like rows of the other identifiers and
   comments, the likes_count of the other comments and the other fields of
   every comment stay. *)
C19_ToggleFrame ==
    [][\A cid \in ToggleCids, uid \in UserArgs :
         ToggleStep(cid, uid) =>
            /\ \A k \in (DOMAIN comment_likes \cup DOMAIN comment_likes') :
                  k # like_key(cid, uid) =>
                     CopiesIn(k, comment_likes') = CopiesIn(k, comment_likes)
            /\ Len(comments') = Len(comments)
            /\ \A i \in 1..Len(comments) :
                  /\ NotWritten(comments'[i]) = NotWritten(comments[i])
                  /\ comments[i].id # cid => comments'[i] = comments[i]
            /\ series' = series /\ episodes' = episodes]_vars

(* u1 has liked comment 1, which u2 likes, while u1 likes comment 2. *)
W19_LikedAmongLikes ==
    /\ ret.op = "toggle_comment_like" /\ ret.status = "ok"
    /\ ret.comment_id = 1 /\ ret.user_identifier = User1 /\ ret.action = "liked"
    /\ like_exists(comment_likes, 1, User2)
    /\ like_exists(comment_likes, 2, User1)
    /\ comment(1).likes_count = 2 /\ comment(2).likes_count = 1

(* The create_comment calls of the form that have not been answered. *)
PendingCreates == {i \in pending : sent[i].op = "create_comment"}

(* The step is a submit of the form that has passed the client's validation. *)
Submitted == ~form.isSubmitting /\ form'.isSubmitting

(* The step sends the one call described by op. *)
SendsOne(op) ==
    /\ Len(sent') = Len(sent) + 1
    /\ SubSeq(sent', 1, Len(sent)) = sent
    /\ sent'[Len(sent')].op = op
    /\ pending' = pending \cup {Len(sent')}

(* C20: each submit of the comment form that passes the client's validation
   sends exactly one create_comment call, and none is sent by the form while
   one is in flight (isSubmitting); each like click sends exactly one
   toggle_comment_like call; and the step in which a call returns, failed or
   not, sends no call. *)
C20_OneCallPerAction ==
    /\ [](Cardinality(PendingCreates) <= 1)
    /\ [](form.isSubmitting <=> PendingCreates # {})
    /\ [][Submitted => SendsOne("create_comment")]_vars
    /\ [][sent' # sent =>
            \/ Submitted /\ SendsOne("create_comment")
            \/ form' = form /\ SendsOne("toggle_comment_like")]_vars
    /\ [][(\E i \in pending : i \notin pending') => sent' = sent]_vars

(* The create_comment call of the form has failed and the like click after it
   has been answered: two calls were sent, and the content is kept. *)
W20_FailedNotResent ==
    /\ Len(sent) = 2 /\ pending = {}
    /\ sent[1].op = "create_comment" /\ sent[2].op = "toggle_comment_like"
    /\ Len(comments) = 1
    /\ ~form.isSubmitting /\ form.content # <<>> /\ form.commentAdded = 0
    /\ ret.op = "toggle_comment_like" /\ ret.status = "ok"

----------------------------------------------------------------------------
(* CommentsList. *)

(* The ids of the comments the list shows. *)
ShownIds == {list.allComments[i].id : i \in 1..Len(list.allComments)}

(* C21: the list of comments shown (allComments) never holds the same comment
   id twice, whatever the order of load-more clicks, comments added, refetches
   on change events, and inserts and updates in the store. *)
X21_NoDuplicateIds ==
    \A i, j \in 1..Len(list.allComments) :
        i # j => list.allComments[i].id # list.allComments[j].id

(* Every query of the list has its answer and no change event is on its way. *)
ListSettled ==
    /\ list.phase = "open"
    /\ \A p \in ListPages : ~list.fetching[p]
    /\ ~list.counting
    /\ feed = {}

(* The comments get_comments_with_stats returns for the arguments of the
   list that the list does not show. *)
NotShown ==
    {comments[i].id : i \in {j \in 1..Len(comments) :
        stats_where(comments[j], ListSeries, ListEpisode)}} \ ShownIds

(* C22: once the fetches of the list have settled, "Load more comments" is
   offered exactly when the store holds top-level comments that
   get_comments_with_stats returns for the list's series and episode and that
   the list does not show; so too for the list of a series (no episode) whose
   episodes have comments. *)
X22_LoadMoreWhenMore ==
    ListSettled => (load_more_offered(list) <=> NotShown # {})

----------------------------------------------------------------------------
(* The like button of one browser. *)

(* The positions in sent of the like calls for comment cid. *)
LikeCalls(cid) ==
    {i \in 1..Len(sent) :
        sent[i].op = "toggle_comment_like" /\ sent[i].comment_id = cid}

(* C23: the toggle_comment_like calls one browser makes for a comment all
   carry the same user identifier, so that the comment never has more than the
   one like of this browser: its second click takes the like away again. *)
X23_OneIdentifierPerBrowser ==
    \A cid \in CommentIds :
        /\ \A i, j \in LikeCalls(cid) :
               sent[i].user_identifier = sent[j].user_identifier
        /\ like_rows(comment_likes, cid) <= Cardinality({cid})

(* C24: liked_comments is the set of the comments this browser has liked: it
   holds no comment id twice, and it holds the id of the comment shown exactly
   when the last like call answered for it said "liked" (which is what the
   heart of the comment shows). *)
X24_LikedCommentsIsSet ==
    LET liked == localStorage.liked_comments
    IN /\ \A i, j \in 1..Len(liked) : i # j => liked[i] # liked[j]
       /\ item.comment_id # NULLCID =>
             (item.userLiked <=> \E i \in 1..Len(liked) : liked[i] = item.comment_id)

----------------------------------------------------------------------------
(* The view counter of SeriesDetail, when calls fail. *)

(* The step is the return of an increment_series_view call. *)
IncrementAnswered == pending' # pending /\ sent' = sent

(* The step is the return of such a call that has failed. *)
IncrementFailed == IncrementAnswered /\ ret'.status # "data"

(* A failed increment is not tried again and stops no interval; and a tick of
   the timer sends one call. *)
NotRetried ==
    /\ IncrementAnswered => page'.intervals = page.intervals
    /\ sent' # sent => Len(sent') = Len(sent) + Cardinality({page.id})
    /\ (sent' # sent /\ page' = page) => page.intervals > 0

(* C25: an increment of the view count that fails is logged and skipped, and
   not retried: a tick of the timer sends at most one increment_series_view,
   a failed call is followed by no other call before the next tick, and the
   ticks go on while the player plays. *)
X25_FailedIncrementLoggedAndSkipped ==
    [][/\ NotRetried
       /\ IncrementFailed =>
             /\ ret'.logged
             /\ page'.totalViewsAdded = page.totalViewsAdded]_vars

(* The parts of C25 about retrying alone. *)
T25_NotRetried == [][NotRetried]_vars

----------------------------------------------------------------------------
(* The change feed. *)

(* The step is the arrival of a change event at the list. *)
EventArrives == feed' # feed /\ feed' \subseteq feed

(* C26: the list takes a change event as a signal to fetch again and nothing
   else: the arrival of an event starts a fetch of the page's query and
   changes neither the comments shown nor the results kept; and whenever the
   comments shown change, they become the result kept for the page, or what
   was shown followed by that result. *)
C26_FeedInvalidatesOnly ==
    [][/\ EventArrives =>
             /\ list'.fetching[list.page]
             /\ list'.allComments = list.allComments
             /\ list'.data = list.data
       /\ list'.allComments # list.allComments =>
             /\ list_comments(list')  # NoData
             /\ list'.allComments \in
                   {list_comments(list').rows,
                    list.allComments \o list_comments(list').rows}]_vars

(* The event of a comment the list does not show has arrived: the page is
   being fetched again, and the list still shows what it showed. *)
W26_EventFetchedNotShown ==
    /\ list.phase = "open"
    /\ feed = {}
    /\ list.fetching[list.page]
    /\ Len(list.allComments) > 0
    /\ \E c \in Rows :
          /\ feed_filter(c, ListSeries, ListEpisode)
          /\ c.id \notin ShownIds
          /\ \A p \in ListPages : \A k \in 1..Len(list.data[p].rows) :
                 list.data[p].rows[k].id # c.id

----------------------------------------------------------------------------
(* The change of the video of SeriesDetail. *)

(* The render of the last change of the video and of isWatching is committed. *)
Committed ==
    page.video = page.reset_deps /\ page.isWatching = page.timer_deps

(* C27, as stated: when the video or its provider changes the page stops
   watching and the timer is cancelled, so that no tick sends an increment
   for the new video before its player has reported a play event; and there
   is never more than one timer. *)
X27_NoTickBeforePlay ==
    /\ [](page.intervals \in {0, 1})
    /\ [][TickSent => page.played]_vars

(* C27, amended: the change of the video is followed by two commits, the first
   running the reset effect, which sets isWatching to false, the second the
   cleanup of the timer effect; a tick that comes due before the second still
   sends an increment.  Once they are done, and until the player of the new
   video reports a play event, the page is not watching, no interval is set
   and no tick sends an increment.  There is never more than one timer. *)
C27_ResetThenCleared ==
    /\ [](page.intervals \in {0, 1})
    /\ [][page'.reset_deps # page.reset_deps => ~page'.isWatching]_vars
    /\ [][TickSent => page.played \/ ~Committed]_vars
    /\ []((Committed /\ ~page.played) =>
             ~page.isWatching /\ page.intervals = 0)

(* The video was changed while the page was watching, after a tick; both
   commits are done and the interval is cleared, the new player has not yet
   reported a play event. *)
W27_ChangedWhileWatching ==
    /\ page.phase = "open" /\ page.video \in Videos
    /\ page.player = "playing" /\ ~page.played
    /\ Committed /\ ~page.isWatching /\ page.intervals = 0
    /\ \E i \in 1..Len(sent) : sent[i].by = "tick"

----------------------------------------------------------------------------
(* What a caller without the admin code can learn. *)

(* The codes that are not the admin code. *)
WrongCodes == CodeArgs \ {AdminCode}

(* C28: called with a wrong code, admin_update_series_status fails as
   unauthorized whatever the store holds: the caller gets the same answer for
   a series that exists and for one that does not, and no series is changed. *)
X28_WrongCodeLearnsNothing ==
    \A code \in WrongCodes, status \in StatusArgs, sid, other \in SeriesArgs :
        LET r == admin_update_series_status(code, sid, status)
            q == admin_update_series_status(code, other, status)
        IN /\ r.status = "error" /\ r.error = "Unauthorized"
           /\ r.series = series
           /\ <<r.status, r.error>> = <<q.status, q.error>>

----------------------------------------------------------------------------
(* The messages of the window. *)

(* The step is the delivery of a message event. *)
MessageStep == ret' # ret /\ ret'.op = "message"

(* The origin of the provider whose wrapper is mounted. *)
ProviderOrigin == player_origin(page.reset_deps[1])

(* C29: a player wrapper calls onPlay, onPause or onEnded only for a message
   whose origin is exactly the origin of its provider and whose data can be
   parsed; a message of another origin, or one that cannot be parsed, calls
   nothing and leaves the page, and with it the watching state, as it was. *)
C29_CallbacksByOriginOnly ==
    [][MessageStep =>
          /\ ret'.callback # "none" =>
                ret'.origin = ProviderOrigin /\ ~parse_data(ret'.data).thrown
          /\ (ret'.origin # ProviderOrigin \/ parse_data(ret'.data).thrown) =>
                ret'.callback = "none" /\ page' = page
          /\ page'.isWatching # page.isWatching => ret'.callback # "none"]_vars

(* The player has played and paused; a play message of an origin that merely
   begins like the provider's has been delivered, and the page is not
   watching. *)
W29_ForeignPlayIgnored ==
    /\ ret.op = "message"
    /\ ret.origin = "https://www.youtube.com.example.org"
    /\ page.reset_deps[1] = "youtube"
    /\ youtube_callback(parse_data(ret.data).data) = "play"
    /\ ret.callback = "none"
    /\ page.player = "paused" /\ ~page.isWatching

----------------------------------------------------------------------------
(* The end of a submission. *)

(* The step ends a submission of the form: its create_comment call returns. *)
SubmissionEnds == ret' # ret /\ ret'.op = "create_comment"

(* C30: a submission that has sent a create_comment call leads to the form
   not submitting, the call completing; when the call fails the content and
   the number of onCommentAdded calls stay as they are, when it succeeds the
   content is cleared and onCommentAdded is called once; onCommentAdded is
   called at no other step, so as often as the form's calls have succeeded. *)
C30_SubmissionEnds ==
    /\ form.isSubmitting ~> ~form.isSubmitting
    /\ [][SubmissionEnds =>
             /\ form.isSubmitting /\ ~form'.isSubmitting
             /\ ret'.status # "ok" =>
                   /\ form'.content = form.content
                   /\ form'.commentAdded = form.commentAdded
             /\ ret'.status = "ok" =>
                   /\ form'.content = <<>>
                   /\ form'.commentAdded = form.commentAdded + 1]_vars
    /\ [][form'.commentAdded # form.commentAdded =>
             SubmissionEnds /\ ret'.status = "ok"]_vars
    /\ [](form.commentAdded = Len(comments) - Len(<<FirstComment>>))

(* Two submissions have ended, the first with an error and the second with the
   comment stored: the content is cleared, onCommentAdded was called once and
   the form is not submitting. *)
W30_FailedThenPosted ==
    /\ Len(sent) = 2 /\ pending = {}
    /\ \A i \in 1..2 : sent[i].op = "create_comment"
    /\ ret.op = "create_comment" /\ ret.status = "ok"
    /\ Len(comments) = 2
    /\ form.commentAdded = 1 /\ form.content = <<>> /\ ~form.isSubmitting

====
